---- MODULE Spec2Model ----
(***************************************************************************)
(* mini-ocpp: the central system (mini_ocpp/central_system.py) and the     *)
(* charging point (mini_ocpp/charger_point.py).  The two roles are         *)
(* separate programs; each is modelled against an arbitrary peer on the    *)
(* other end of the websocket: CentralSpec is the central system with two  *)
(* connections, PointSpec is one charging point.                           *)
(*                                                                         *)
(* A step of the model is the code a coroutine runs between two            *)
(* suspension points (await).  websocket.send hands the frame to the       *)
(* socket when it is called; the caller resumes in a later step.           *)
(* cs_out / cp_out hold the frames handed to the socket by the last step.  *)
(***************************************************************************)
EXTENDS Integers, Sequences, FiniteSets, TLC

VARIABLES
    connected_charging_points, \* central: ordered dict serial -> websocket
    pending_requests,          \* central: dict message id -> future (call slot)
    calls,                     \* central: the send_* coroutines and their futures
    conn,                      \* central: handle_connection per websocket
    cs_out,                    \* central: frames handed to websockets by the last step
    cs_in,                     \* central: the frame or request the last step handled, if any
    config,                    \* point: configuration store
    sent_calls,                \* point: __sent_calls, message id -> action
    boot_pc,                   \* point: run() / send_boot_notification position
    hb_pc,                     \* point: heartbeat_task position
    listen_pc,                 \* point: listen_for_messages position
    total_sleep_time,          \* point: heartbeat_task local
    hb_count,                  \* point: number of Heartbeat calls sent
    hb_interval_at_sleep_start,\* point: HeartbeatInterval when the sleep began
    cp_conn,                   \* point: state of the websocket
    ran_since_over,            \* point: the tasks the event loop ran since run() was over
    cp_out,                    \* point: frames handed to the websocket by the last step
    cp_in                      \* point: the frame the last step received, if any

cs_vars == <<connected_charging_points, pending_requests, calls, conn, cs_out, cs_in>>
cp_vars == <<config, sent_calls, boot_pc, hb_pc, listen_pc, total_sleep_time,
             hb_count, hb_interval_at_sleep_start, cp_conn, ran_since_over, cp_out, cp_in>>
vars == <<connected_charging_points, pending_requests, calls, conn, cs_out, cs_in,
          config, sent_calls, boot_pc, hb_pc, listen_pc, total_sleep_time,
          hb_count, hb_interval_at_sleep_start, cp_conn, ran_since_over, cp_out, cp_in>>

(***************************************************************************)
(* Bounds                                                                  *)
(***************************************************************************)
MaxCalls == 2        \* administrative calls issued by central
MaxHeartbeats == 2   \* Heartbeat calls sent by the point

(***************************************************************************)
(* Wire envelope                                                           *)
(***************************************************************************)
CALL == 2
CALL_RESULT == 3
CALL_ERROR == 4

Now == "now"   \* datetime.now(timezone.utc).isoformat()

CallFrame(message_id, action, payload) ==
    [type |-> CALL, id |-> message_id, action |-> action, payload |-> payload]
ReplyFrame(message_type, message_id, payload) ==
    [type |-> message_type, id |-> message_id, payload |-> payload]

EmptyPayload == [k \in {} |-> TRUE]   \* {}

\* The values json.loads puts in a payload.  A str is the sequence of the code
\* points of its characters; a finite float is the fraction num / den with
\* den > 0, the other floats are nan and the infinities.
PyStr(chars) == [t |-> "str", s |-> chars]
PyInt(n) == [t |-> "int", n |-> n]
PyBool(b) == [t |-> "bool", b |-> b]
PyFloat(num, den) == [t |-> "float", finite |-> TRUE, num |-> num, den |-> den]
PyNotFinite == [t |-> "float", finite |-> FALSE]
PyNone == [t |-> "NoneType"]
PyList(items) == [t |-> "list", items |-> items]
PyDict(d) == [t |-> "dict", d |-> d]

(***************************************************************************)
(* Python dict that keeps insertion order: a sequence of [id, ws] items    *)
(* with distinct ids.                                                      *)
(***************************************************************************)
DictKeys(d) == {d[i].id : i \in 1..Len(d)}
DictIndex(d, k) == CHOOSE i \in 1..Len(d) : d[i].id = k
DictGet(d, k) == d[DictIndex(d, k)].ws
DictSet(d, k, v) ==
    IF k \in DictKeys(d)
    THEN [d EXCEPT ![DictIndex(d, k)] = [id |-> k, ws |-> v]]
    ELSE Append(d, [id |-> k, ws |-> v])
DictDelAt(d, i) == [j \in 1..(Len(d) - 1) |-> IF j < i THEN d[j] ELSE d[j + 1]]

(***************************************************************************)
(* CentralSystem                                                           *)
(***************************************************************************)
Conns == {"ws1", "ws2"}
Serials == {"SN1", "SN2"}
Calls == 1..MaxCalls
default_heartbeat_interval == 20

\* str(uuid.uuid4()), the n-th id the program generates: distinct calls get
\* distinct ids
uuid4(n) == <<"uuid", n>>
UnknownId == <<"uuid", 0>>    \* an id the program never generated
PeerCallId == <<"peer", 1>>   \* the id a peer puts in its own Call frames

BootPayloads ==
    {[chargePointModel |-> "M", chargePointVendor |-> "V", chargePointSerialNumber |-> s] :
        s \in Serials \cup {""}}
    \cup {[chargePointModel |-> "M", chargePointVendor |-> "V"]}

AcceptedPayload == [status |-> "Accepted"]
RejectedPayload == [status |-> "Rejected"]

\* the bodies the administrative facade forwards
AdminGetPayload == [key |-> <<"HeartbeatInterval">>]
AdminChangePayload == [key |-> "HeartbeatInterval", value |-> PyStr(<<49, 50>>)]   \* "12"

\* MessageValidator.validate_message returns True or False; the schema store it
\* reads (./schemas/json) is outside the program, so the verdict comes with
\* the frame as an input
Input(message, is_valid) == [frame |-> message, is_valid |-> is_valid]

\* Frames that are not well-formed.  A frame is what the peer sent as text;
\* json.loads turns it into a list (a record with the fields its positions
\* hold: type, id, action, payload), into another JSON value, or raises.
NotJsonText == [text |-> "not json"]            \* json.loads raises JSONDecodeError
JsonObject == [object |-> EmptyPayload]         \* the text {}: a dict, not a list
UnknownTagFrame == ReplyFrame(CALL_ERROR + 1, UnknownId, EmptyPayload)  \* [5, id, {}]
ShortFrame == [type |-> CALL]                   \* the text [2]
MalformedFrames == {NotJsonText, JsonObject, UnknownTagFrame, ShortFrame}

json_loads_raises(message) == "text" \in DOMAIN message
\* message[0] raises (KeyError on a dict)
tag_raises(message) == "type" \notin DOMAIN message
\* message[1], message[2] (and message[3] of a Call) raise IndexError
call_index_raises(message) == ~ ({"id", "action", "payload"} \subseteq DOMAIN message)
reply_index_raises(message) == ~ ({"id", "payload"} \subseteq DOMAIN message)

BootPayloadSN1 ==
    [chargePointModel |-> "M", chargePointVendor |-> "V", chargePointSerialNumber |-> "SN1"]

\* what a peer can put on a connection to central, with the validator's verdict
InputsToCentral ==
    {Input(CallFrame(PeerCallId, "BootNotification", p), TRUE) : p \in BootPayloads}
    \cup {Input(CallFrame(PeerCallId, "BootNotification", BootPayloadSN1), FALSE)}
    \cup {Input(CallFrame(PeerCallId, "Heartbeat", EmptyPayload), TRUE)}
    \cup {Input(CallFrame(PeerCallId, "StatusNotification", EmptyPayload), TRUE)}
    \cup {Input(ReplyFrame(CALL_RESULT, i, AcceptedPayload), TRUE) :
              i \in {uuid4(c) : c \in Calls} \cup {UnknownId}}
    \cup {Input(ReplyFrame(CALL_ERROR, i, RejectedPayload), TRUE) :
              i \in {uuid4(c) : c \in Calls} \cup {UnknownId}}
    \cup {Input(m, TRUE) : m \in MalformedFrames}

NoResponse == [none |-> TRUE]
NoInput == [none |-> TRUE]
IdleCall == [pc |-> "idle", ws |-> "", response |-> NoResponse]

\* process_boot_notification without the registry update of line 107
CS_process_boot_notification_no_upsert(ccp, websocket, message_id, payload, is_valid) ==
    IF is_valid
    THEN [ccp |-> ccp,
          out |-> <<[ws |-> websocket,
                     frame |-> ReplyFrame(CALL_RESULT, message_id,
                                  [status |-> "Accepted", currentTime |-> Now,
                                   interval |-> default_heartbeat_interval])]>>,
          raised |-> FALSE]
    ELSE [ccp |-> ccp, out |-> <<>>, raised |-> TRUE]

\* process_boot_notification: the new registry, the frames sent, and whether an
\* exception left the handler (line 112 reads charge_point_id, which the
\* invalid branch never assigned: UnboundLocalError)
CS_process_boot_notification(ccp, websocket, message_id, payload, is_valid) ==
    IF is_valid
    THEN LET has_id == "chargePointSerialNumber" \in DOMAIN payload
                       /\ payload.chargePointSerialNumber # ""
             response_payload == [status |-> "Accepted", currentTime |-> Now,
                                  interval |-> default_heartbeat_interval]
         IN [ccp |-> IF has_id
                     THEN DictSet(ccp, payload.chargePointSerialNumber, websocket)
                     ELSE ccp,
             out |-> <<[ws |-> websocket,
                        frame |-> ReplyFrame(CALL_RESULT, message_id, response_payload)]>>,
             raised |-> FALSE]
    ELSE [ccp |-> ccp, out |-> <<>>, raised |-> TRUE]

\* process_heartbeat replying with an empty payload
CS_process_heartbeat_no_time(websocket, message_id) ==
    <<[ws |-> websocket,
       frame |-> ReplyFrame(CALL_RESULT, message_id, EmptyPayload)]>>

\* process_heartbeat: one CallResult with the current time
CS_process_heartbeat(websocket, message_id) ==
    <<[ws |-> websocket,
       frame |-> ReplyFrame(CALL_RESULT, message_id, [currentTime |-> Now])]>>

\* process_call_message: dispatch on the action name
CS_process_call_message(ccp, websocket, message, is_valid) ==
    IF call_index_raises(message)
    THEN [ccp |-> ccp, out |-> <<>>, raised |-> TRUE]
    ELSE IF message.action = "BootNotification"
    THEN CS_process_boot_notification(ccp, websocket, message.id, message.payload, is_valid)
    ELSE IF message.action = "Heartbeat"
    THEN [ccp |-> ccp, out |-> CS_process_heartbeat(websocket, message.id), raised |-> FALSE]
    ELSE [ccp |-> ccp, out |-> <<>>, raised |-> FALSE]

\* process_call_result_message reading the future with [] instead of pop()
CS_process_call_result_message_no_pop(pending, cs, message) ==
    IF reply_index_raises(message)
    THEN [pending |-> pending, calls |-> cs]
    ELSE IF message.id \in DOMAIN pending
    THEN [pending |-> pending,
          calls |-> [cs EXCEPT ![pending[message.id]] =
                        [pc |-> "done", ws |-> "", response |-> message.payload]]]
    ELSE [pending |-> pending, calls |-> cs]

\* process_call_result_message: pop the future and set its result
CS_process_call_result_message(pending, cs, message) ==
    IF reply_index_raises(message)
    THEN [pending |-> pending, calls |-> cs]
    ELSE IF message.id \in DOMAIN pending
    THEN LET future == pending[message.id]
         IN [pending |-> [i \in DOMAIN pending \ {message.id} |-> pending[i]],
             calls |-> [cs EXCEPT ![future] = [pc |-> "done", ws |-> "",
                                                 response |-> message.payload]]]
    ELSE [pending |-> pending, calls |-> cs]

\* process_message: dispatch on the type tag; any exception is logged and dropped
CS_process_message(websocket, message, is_valid) ==
    IF tag_raises(message)
    THEN /\ cs_out' = <<>>
         /\ UNCHANGED <<connected_charging_points, pending_requests, calls>>
    ELSE IF message.type = CALL
    THEN LET r == CS_process_call_message(connected_charging_points, websocket,
                                          message, is_valid)
         IN /\ connected_charging_points' = r.ccp
            /\ cs_out' = r.out
            /\ UNCHANGED <<pending_requests, calls>>
    ELSE IF message.type = CALL_RESULT \/ message.type = CALL_ERROR
    THEN LET r == CS_process_call_result_message(pending_requests, calls, message)
         IN /\ pending_requests' = r.pending
            /\ calls' = r.calls
            /\ cs_out' = <<>>
            /\ UNCHANGED connected_charging_points
    ELSE /\ cs_out' = <<>>
         /\ UNCHANGED <<connected_charging_points, pending_requests, calls>>

\* handle_connection, one iteration of "async for message in websocket".
\* json.loads is outside the try of process_message: its exception is not a
\* ConnectionClosed, so it leaves handle_connection without the cleanup and
\* the connection ends.
CS_Receive(websocket, message, is_valid) ==
    /\ conn[websocket] = "open"
    /\ IF json_loads_raises(message)
       THEN /\ conn' = [conn EXCEPT ![websocket] = "closed"]
            /\ cs_out' = <<>>
            /\ UNCHANGED <<connected_charging_points, pending_requests, calls>>
       ELSE /\ CS_process_message(websocket, message, is_valid)
            /\ UNCHANGED conn
    /\ cs_in' = [ws |-> websocket, frame |-> message, is_valid |-> is_valid]
    /\ UNCHANGED cp_vars

\* the except branch of handle_connection deleting the first item whatever its
\* value
CS_remove_disconnected_first(ccp, websocket) ==
    IF ccp = <<>> THEN ccp ELSE DictDelAt(ccp, 1)

\* the registry after the except branch of handle_connection: the first item
\* whose value is the websocket is deleted, then the scan stops
CS_remove_disconnected(ccp, websocket) ==
    LET hits == {i \in 1..Len(ccp) : ccp[i].ws = websocket}
    IN IF hits = {} THEN ccp
       ELSE DictDelAt(ccp, CHOOSE i \in hits : \A j \in hits : i <= j)

\* the connection ends: from now on websocket.send raises ConnectionClosed;
\* handle_connection is still suspended in its "async for" (line 149)
CS_Close(websocket) ==
    /\ conn[websocket] = "open"
    /\ conn' = [conn EXCEPT ![websocket] = "ended"]
    /\ cs_out' = <<>>
    /\ cs_in' = NoInput
    /\ UNCHANGED <<connected_charging_points, pending_requests, calls, cp_vars>>

\* handle_connection is resumed after the connection ended: after a normal
\* closure (clean) the "async for" ends without an exception; after an abnormal
\* one it raises ConnectionClosed and the except branch runs
CS_HandlerEnds(websocket, clean) ==
    /\ conn[websocket] = "ended"
    /\ conn' = [conn EXCEPT ![websocket] = "closed"]
    /\ connected_charging_points' =
         IF clean THEN connected_charging_points
         ELSE CS_remove_disconnected(connected_charging_points, websocket)
    /\ cs_out' = <<>>
    /\ cs_in' = NoInput
    /\ UNCHANGED <<pending_requests, calls, cp_vars>>

\* the send without the membership test of lines 170 / 200: the lookup of an
\* unknown identity raises KeyError
CS_send_call_no_test(c, action, charge_point_id, payload) ==
    /\ calls[c].pc = "idle"
    /\ \A b \in Calls : b < c => calls[b].pc # "idle"
    /\ IF charge_point_id \in DictKeys(connected_charging_points)
          /\ conn[DictGet(connected_charging_points, charge_point_id)] = "open"
       THEN /\ calls' = [calls EXCEPT ![c] =
                  [pc |-> "sending",
                   ws |-> DictGet(connected_charging_points, charge_point_id),
                   response |-> NoResponse]]
            /\ cs_out' = <<[ws |-> DictGet(connected_charging_points, charge_point_id),
                            frame |-> CallFrame(uuid4(c), action, payload)]>>
       ELSE /\ calls' = [calls EXCEPT ![c] =
                  [pc |-> "raised", ws |-> "", response |-> NoResponse]]
            /\ cs_out' = <<>>
    /\ cs_in' = [request |-> action, charge_point_id |-> charge_point_id]
    /\ UNCHANGED <<connected_charging_points, pending_requests, conn, cp_vars>>

\* send_get_configuration / send_change_configuration up to "await websocket.send"
CS_send_call(c, action, charge_point_id, payload) ==
    /\ calls[c].pc = "idle"
    /\ \A b \in Calls : b < c => calls[b].pc # "idle"
    /\ IF charge_point_id \in DictKeys(connected_charging_points)
       THEN LET websocket == DictGet(connected_charging_points, charge_point_id)
            IN IF conn[websocket] = "open"
               THEN /\ calls' = [calls EXCEPT ![c] =
                          [pc |-> "sending", ws |-> websocket, response |-> NoResponse]]
                    /\ cs_out' = <<[ws |-> websocket,
                                    frame |-> CallFrame(uuid4(c), action, payload)]>>
               ELSE \* websocket.send raises ConnectionClosed
                    /\ calls' = [calls EXCEPT ![c] =
                          [pc |-> "raised", ws |-> "", response |-> NoResponse]]
                    /\ cs_out' = <<>>
       ELSE /\ calls' = [calls EXCEPT ![c] =
                  [pc |-> "not_connected", ws |-> "", response |-> NoResponse]]
            /\ cs_out' = <<>>
    /\ cs_in' = [request |-> action, charge_point_id |-> charge_point_id]
    /\ UNCHANGED <<connected_charging_points, pending_requests, conn, cp_vars>>

send_get_configuration(c, charge_point_id, payload) ==
    CS_send_call(c, "GetConfiguration", charge_point_id, payload)

send_change_configuration(c, charge_point_id, payload) ==
    CS_send_call(c, "ChangeConfiguration", charge_point_id, payload)

\* the statements after the send storing one future of the instance for every id
CS_register_after_send_shared(pending, c) == (uuid4(c) :> 1) @@ pending

\* the statements after "await websocket.send": create the future, store it in
\* pending_requests, suspend on it
CS_register_after_send(pending, c) == (uuid4(c) :> c) @@ pending

CS_Register(c) ==
    /\ calls[c].pc = "sending"
    /\ pending_requests' = CS_register_after_send(pending_requests, c)
    /\ calls' = [calls EXCEPT ![c].pc = "waiting"]
    /\ cs_out' = <<>>
    /\ cs_in' = NoInput
    /\ UNCHANGED <<connected_charging_points, conn, cp_vars>>

\* "await websocket.send" raises ConnectionClosed when the connection ended
\* while the send was in progress
CS_SendFails(c) ==
    /\ calls[c].pc = "sending"
    /\ conn[calls[c].ws] # "open"
    /\ calls' = [calls EXCEPT ![c] = [pc |-> "raised", ws |-> "", response |-> NoResponse]]
    /\ cs_out' = <<>>
    /\ cs_in' = NoInput
    /\ UNCHANGED <<connected_charging_points, pending_requests, conn, cp_vars>>

CentralProgram ==
    \/ \E ws \in Conns, clean \in BOOLEAN : CS_HandlerEnds(ws, clean)
    \/ \E c \in Calls : CS_Register(c)
    \/ \E c \in Calls : CS_SendFails(c)

CentralNext ==
    \/ \E ws \in Conns, i \in InputsToCentral : CS_Receive(ws, i.frame, i.is_valid)
    \/ \E ws \in Conns : CS_Close(ws)
    \/ \E ws \in Conns, clean \in BOOLEAN : CS_HandlerEnds(ws, clean)
    \/ \E c \in Calls, id \in Serials : send_get_configuration(c, id, AdminGetPayload)
    \/ \E c \in Calls, id \in Serials : send_change_configuration(c, id, AdminChangePayload)
    \/ \E c \in Calls : CS_Register(c)
    \/ \E c \in Calls : CS_SendFails(c)

(***************************************************************************)
(* ChargingPoint                                                           *)
(***************************************************************************)
InitialConfig == [k \in {"HeartbeatInterval"} |-> 30]

BootId == uuid4(1)              \* the first id generated: the BootNotification call
HeartbeatId(n) == uuid4(1 + n)  \* id of the n-th Heartbeat call
PointIds == {BootId} \cup {HeartbeatId(n) : n \in 1..MaxHeartbeats}

\* int(value), line 165, for the values json.loads puts in a payload.
\*   int, bool: the number itself (True is 1, False is 0).
\*   float: the number truncated towards zero; nan raises ValueError and an
\*          infinity OverflowError.
\*   None, list, dict: TypeError.
\*   str: surrounding whitespace is stripped and the rest is read as an
\*        optionally signed decimal numeral whose digits may be separated by
\*        single underscores; whitespace and digits are those of the Unicode
\*        database of the interpreter (14.0.0 in CPython 3.11), control
\*        characters 28..31 are not stripped; a numeral of more than
\*        sys.get_int_max_str_digits() digits, and any other str, raise
\*        ValueError.
Whitespace ==
    (9..13) \cup {32, 133, 160, 5760} \cup (8192..8202) \cup {8232, 8233, 8239, 8287, 12288}
\* the code points of the digit zero of every decimal script; the digits one
\* to nine of the script follow it
DecimalZeros ==
    {48, 1632, 1776, 1984, 2406, 2534, 2662, 2790, 2918, 3046, 3174, 3302, 3430, 3558,
     3664, 3792, 3872, 4160, 4240, 6112, 6160, 6470, 6608, 6784, 6800, 6992, 7088, 7232,
     7248, 42528, 43216, 43264, 43472, 43504, 43600, 44016, 65296, 66720, 68912, 69734,
     69872, 69942, 70096, 70384, 70736, 70864, 71248, 71360, 71472, 71904, 72016, 72784,
     73040, 73120, 92768, 92864, 93008, 120782, 120792, 120802, 120812, 120822, 123200,
     123632, 125264, 130032}
IsDecimal(c) == \E z \in DecimalZeros : c \in z..(z + 9)
DigitValue(c) == c - (CHOOSE z \in DecimalZeros : c \in z..(z + 9))
Minus == 45        \* "-"
Plus == 43         \* "+"
Underscore == 95   \* "_"
max_str_digits == 4300   \* sys.get_int_max_str_digits(), the default
RECURSIVE lstrip(_)
lstrip(cs) == IF cs # <<>> /\ Head(cs) \in Whitespace THEN lstrip(Tail(cs)) ELSE cs
RECURSIVE rstrip(_)
rstrip(cs) ==
    IF cs # <<>> /\ cs[Len(cs)] \in Whitespace
    THEN rstrip(SubSeq(cs, 1, Len(cs) - 1))
    ELSE cs
strip(cs) == rstrip(lstrip(cs))
unsigned(cs) == IF cs # <<>> /\ Head(cs) \in {Minus, Plus} THEN Tail(cs) ELSE cs
\* digits, with single underscores between digits only
IsNumeral(cs) ==
    /\ Len(cs) > 0
    /\ \A i \in 1..Len(cs) : IsDecimal(cs[i]) \/ cs[i] = Underscore
    /\ cs[1] # Underscore
    /\ cs[Len(cs)] # Underscore
    /\ \A i \in 1..(Len(cs) - 1) : ~ (cs[i] = Underscore /\ cs[i + 1] = Underscore)
digit_count(cs) == Cardinality({i \in 1..Len(cs) : cs[i] # Underscore})
RECURSIVE digits_of(_)
digits_of(cs) ==
    IF cs = <<>> THEN <<>>
    ELSE (IF Head(cs) = Underscore THEN <<>> ELSE <<Head(cs)>>) \o digits_of(Tail(cs))
RECURSIVE DecimalValue(_)
DecimalValue(cs) ==
    IF cs = <<>> THEN 0
    ELSE 10 * DecimalValue(SubSeq(cs, 1, Len(cs) - 1)) + DigitValue(cs[Len(cs)])
int_raises(value) ==
    CASE value.t \in {"int", "bool"} -> FALSE
      [] value.t = "float" -> ~ value.finite
      [] value.t = "str" ->
            LET numeral == unsigned(strip(value.s))
            IN ~ IsNumeral(numeral) \/ digit_count(numeral) > max_str_digits
      [] OTHER -> TRUE
int(value) ==
    CASE value.t = "int" -> value.n
      [] value.t = "bool" -> IF value.b THEN 1 ELSE 0
      [] value.t = "float" ->
            IF value.num >= 0 THEN value.num \div value.den
            ELSE 0 - ((0 - value.num) \div value.den)
      [] value.t = "str" ->
            LET body == strip(value.s)
            IN IF Head(body) = Minus
               THEN 0 - DecimalValue(digits_of(Tail(body)))
               ELSE DecimalValue(digits_of(unsigned(body)))

\* dict[key] = value
DictAssign(d, k, v) == [x \in DOMAIN d \cup {k} |-> IF x = k THEN v ELSE d[x]]
\* del dict[key]
DictDel(d, k) == [x \in DOMAIN d \ {k} |-> d[x]]

\* process_get_configuration, the loop over payload.get("key")
RECURSIVE requested_config(_, _)
requested_config(cfg, keys) ==
    IF keys = <<>> THEN <<>>
    ELSE (IF Head(keys) \in DOMAIN cfg
          THEN <<[key |-> Head(keys), readonly |-> FALSE, value |-> cfg[Head(keys)]]>>
          ELSE <<>>) \o requested_config(cfg, Tail(keys))
RECURSIVE unknown_keys(_, _)
unknown_keys(cfg, keys) ==
    IF keys = <<>> THEN <<>>
    ELSE (IF Head(keys) \in DOMAIN cfg THEN <<>> ELSE <<Head(keys)>>)
         \o unknown_keys(cfg, Tail(keys))

\* process_get_configuration failing the whole call when a key is unknown
CP_process_get_configuration_strict(cfg, message_id, payload, is_valid) ==
    IF is_valid
    THEN IF "key" \notin DOMAIN payload
         THEN [config |-> cfg, response |-> <<>>, raised |-> TRUE]
         ELSE IF unknown_keys(cfg, payload.key) # <<>>
         THEN [config |-> cfg,
               response |-> <<ReplyFrame(CALL_ERROR, message_id, RejectedPayload)>>,
               raised |-> FALSE]
         ELSE [config |-> cfg,
               response |-> <<ReplyFrame(CALL_RESULT, message_id,
                                [configurationKey |-> requested_config(cfg, payload.key),
                                 unknownKey |-> <<>>])>>,
               raised |-> FALSE]
    ELSE [config |-> cfg,
          response |-> <<ReplyFrame(CALL_ERROR, message_id, RejectedPayload)>>,
          raised |-> FALSE]

\* A handler returns the store after it, the frames it returns for sending and
\* whether an exception left it.
CP_process_get_configuration(cfg, message_id, payload, is_valid) ==
    IF is_valid
    THEN IF "key" \notin DOMAIN payload
         THEN \* payload.get("key") is None: TypeError
              [config |-> cfg, response |-> <<>>, raised |-> TRUE]
         ELSE [config |-> cfg,
               response |-> <<ReplyFrame(CALL_RESULT, message_id,
                                [configurationKey |-> requested_config(cfg, payload.key),
                                 unknownKey |-> unknown_keys(cfg, payload.key)])>>,
               raised |-> FALSE]
    ELSE [config |-> cfg,
          response |-> <<ReplyFrame(CALL_ERROR, message_id, RejectedPayload)>>,
          raised |-> FALSE]

\* process_change_configuration without the assignment of line 165
CP_process_change_configuration_no_update(cfg, message_id, payload, is_valid) ==
    IF "key" \notin DOMAIN payload
    THEN [config |-> cfg, response |-> <<>>, raised |-> TRUE]
    ELSE IF payload.key \in DOMAIN cfg /\ is_valid
    THEN IF "value" \notin DOMAIN payload
         THEN [config |-> cfg, response |-> <<>>, raised |-> TRUE]
         ELSE IF int_raises(payload.value)
         THEN [config |-> cfg, response |-> <<>>, raised |-> TRUE]
         ELSE [config |-> cfg,
               response |-> <<ReplyFrame(CALL_RESULT, message_id, AcceptedPayload)>>,
               raised |-> FALSE]
    ELSE [config |-> cfg,
          response |-> <<ReplyFrame(CALL_ERROR, message_id, RejectedPayload)>>,
          raised |-> FALSE]

\* process_change_configuration without the "key in self.config" test of line 163
CP_process_change_configuration_any_key(cfg, message_id, payload, is_valid) ==
    IF "key" \notin DOMAIN payload
    THEN [config |-> cfg, response |-> <<>>, raised |-> TRUE]
    ELSE IF is_valid
    THEN IF "value" \notin DOMAIN payload
         THEN [config |-> cfg, response |-> <<>>, raised |-> TRUE]
         ELSE IF int_raises(payload.value)
         THEN [config |-> cfg, response |-> <<>>, raised |-> TRUE]
         ELSE [config |-> DictAssign(cfg, payload.key, int(payload.value)),
               response |-> <<ReplyFrame(CALL_RESULT, message_id, AcceptedPayload)>>,
               raised |-> FALSE]
    ELSE [config |-> cfg,
          response |-> <<ReplyFrame(CALL_ERROR, message_id, RejectedPayload)>>,
          raised |-> FALSE]

CP_process_change_configuration(cfg, message_id, payload, is_valid) ==
    IF "key" \notin DOMAIN payload
    THEN \* payload["key"]: KeyError
         [config |-> cfg, response |-> <<>>, raised |-> TRUE]
    ELSE IF payload.key \in DOMAIN cfg /\ is_valid
    THEN IF "value" \notin DOMAIN payload
         THEN \* payload["value"]: KeyError
              [config |-> cfg, response |-> <<>>, raised |-> TRUE]
         ELSE IF int_raises(payload.value)
         THEN [config |-> cfg, response |-> <<>>, raised |-> TRUE]
         ELSE [config |-> DictAssign(cfg, payload.key, int(payload.value)),
               response |-> <<ReplyFrame(CALL_RESULT, message_id, AcceptedPayload)>>,
               raised |-> FALSE]
    ELSE [config |-> cfg,
          response |-> <<ReplyFrame(CALL_ERROR, message_id, RejectedPayload)>>,
          raised |-> FALSE]

\* process_call_message: an unsupported action leaves "response" unbound and
\* json.dumps(response) raises UnboundLocalError
CP_process_call_message(cfg, message, is_valid) ==
    IF call_index_raises(message)
    THEN [config |-> cfg, response |-> <<>>, raised |-> TRUE]
    ELSE IF message.action = "GetConfiguration"
    THEN CP_process_get_configuration(cfg, message.id, message.payload, is_valid)
    ELSE IF message.action = "ChangeConfiguration"
    THEN CP_process_change_configuration(cfg, message.id, message.payload, is_valid)
    ELSE [config |-> cfg, response |-> <<>>, raised |-> TRUE]

\* process_boot_notification storing the interval under the reply's field name
CP_process_boot_notification_new_key(cfg, payload) ==
    IF "interval" \in DOMAIN payload
    THEN [config |-> DictAssign(cfg, "interval", payload.interval), raised |-> FALSE]
    ELSE [config |-> cfg, raised |-> TRUE]

\* ChargingPoint.process_boot_notification: payload["interval"] raises KeyError
\* when the reply has no interval
CP_process_boot_notification(cfg, payload) ==
    IF "interval" \in DOMAIN payload
    THEN [config |-> DictAssign(cfg, "HeartbeatInterval", payload.interval), raised |-> FALSE]
    ELSE [config |-> cfg, raised |-> TRUE]

\* process_call_result_message treating every reply as the BootNotification's
CP_process_call_result_message_any_action(cfg, sc, message) ==
    IF "id" \notin DOMAIN message \/ message.id \notin DOMAIN sc
       \/ "payload" \notin DOMAIN message
    THEN [config |-> cfg, sent_calls |-> sc, raised |-> TRUE]
    ELSE LET r == CP_process_boot_notification(cfg, message.payload)
         IN [config |-> r.config, sent_calls |-> DictDel(sc, message.id),
             raised |-> r.raised]

\* process_call_result_message: message[1], self.__sent_calls[message_id]
\* (KeyError when the id is not in the table) and message[2] are read before
\* the entry is deleted
CP_process_call_result_message(cfg, sc, message) ==
    IF "id" \notin DOMAIN message \/ message.id \notin DOMAIN sc
       \/ "payload" \notin DOMAIN message
    THEN [config |-> cfg, sent_calls |-> sc, raised |-> TRUE]
    ELSE LET action == sc[message.id]
             sc2 == DictDel(sc, message.id)
         IN IF action = "BootNotification"
            THEN LET r == CP_process_boot_notification(cfg, message.payload)
                 IN [config |-> r.config, sent_calls |-> sc2, raised |-> r.raised]
            ELSE [config |-> cfg, sent_calls |-> sc2, raised |-> FALSE]

\* handle_message: dispatch on the type tag
handle_message(cfg, sc, message, is_valid) ==
    IF tag_raises(message)
    THEN [config |-> cfg, sent_calls |-> sc, response |-> <<>>, raised |-> TRUE]
    ELSE IF message.type = CALL
    THEN LET r == CP_process_call_message(cfg, message, is_valid)
         IN [config |-> r.config, sent_calls |-> sc, response |-> r.response,
             raised |-> r.raised]
    ELSE IF message.type = CALL_RESULT
    THEN LET r == CP_process_call_result_message(cfg, sc, message)
         IN [config |-> r.config, sent_calls |-> r.sent_calls, response |-> <<>>,
             raised |-> r.raised]
    ELSE [config |-> cfg, sent_calls |-> sc, response |-> <<>>, raised |-> FALSE]

KeyLists ==
    {<<>>, <<"HeartbeatInterval">>, <<"NoSuchKey">>, <<"HeartbeatInterval", "NoSuchKey">>}
GetPayloads == {[key |-> ks] : ks \in KeyLists}

Str12 == PyStr(<<49, 50>>)                     \* "12"
StrMinus1 == PyStr(<<45, 49>>)                 \* "-1"
StrAbc == PyStr(<<97, 98, 99>>)                \* "abc"
StrSpaced1_2 == PyStr(<<32, 49, 95, 50, 10>>)  \* " 1_2\n"
\* "\v" then ARABIC-INDIC DIGIT ONE, FULLWIDTH DIGIT TWO, IDEOGRAPHIC SPACE
StrUnicode12 == PyStr(<<11, 1633, 65298, 12288>>)
Float12_5 == PyFloat(25, 2)                    \* 12.5
Values == {Str12, StrMinus1, StrAbc, StrSpaced1_2, StrUnicode12, PyInt(5), Float12_5, PyNone}
ChangePayloads ==
    {[key |-> "HeartbeatInterval", value |-> v] : v \in Values}
    \cup {[key |-> "NoSuchKey", value |-> Str12]}

PointReplyPayloads == {[interval |-> 5], [currentTime |-> Now]}

\* what a peer can put on the connection to the point, with the validator's
\* verdict
InputsToPoint ==
    {Input(CallFrame(PeerCallId, "GetConfiguration", p), TRUE) : p \in GetPayloads}
    \cup {Input(CallFrame(PeerCallId, "GetConfiguration", EmptyPayload), TRUE),
          Input(CallFrame(PeerCallId, "GetConfiguration",
                          [key |-> <<"HeartbeatInterval">>]), FALSE)}
    \cup {Input(CallFrame(PeerCallId, "ChangeConfiguration", p), TRUE) : p \in ChangePayloads}
    \cup {Input(CallFrame(PeerCallId, "ChangeConfiguration", p), FALSE) :
              p \in {[key |-> "HeartbeatInterval", value |-> PyInt(5)],
                     [key |-> "NoSuchKey", value |-> Str12],
                     [value |-> Str12]}}
    \cup {Input(CallFrame(PeerCallId, "ChangeConfiguration", [key |-> "HeartbeatInterval"]), TRUE)}
    \cup {Input(CallFrame(PeerCallId, "Reset", EmptyPayload), TRUE)}
    \cup {Input(ReplyFrame(CALL_RESULT, i, p), TRUE) : i \in PointIds \cup {UnknownId},
                                                       p \in PointReplyPayloads}
    \cup {Input(ReplyFrame(CALL_ERROR, i, RejectedPayload), TRUE) :
              i \in PointIds \cup {UnknownId}}
    \cup {Input(m, TRUE) : m \in MalformedFrames}

\* run() up to the "await websocket.send" of send_boot_notification
CP_SendBoot ==
    /\ boot_pc = "init"
    /\ IF cp_conn = "open"
       THEN /\ boot_pc' = "sending"
            /\ cp_out' = <<CallFrame(BootId, "BootNotification",
                              [chargePointModel |-> "M", chargePointVendor |-> "V",
                               chargePointSerialNumber |-> "SN1"])>>
       ELSE \* websocket.send raises: the exception leaves the "async with" block
            /\ boot_pc' = "closing"
            /\ cp_out' = <<>>
    /\ cp_in' = NoInput
    /\ UNCHANGED <<config, sent_calls, hb_pc, listen_pc, total_sleep_time, hb_count,
                   hb_interval_at_sleep_start, cp_conn, ran_since_over, cs_vars>>

\* send_boot_notification after the send: record the call, then run() awaits
\* gather
CP_BootSent ==
    /\ boot_pc = "sending"
    /\ sent_calls' = DictAssign(sent_calls, BootId, "BootNotification")
    /\ boot_pc' = "gather"
    /\ cp_out' = <<>>
    /\ cp_in' = NoInput
    /\ UNCHANGED <<config, hb_pc, listen_pc, total_sleep_time, hb_count,
                   hb_interval_at_sleep_start, cp_conn, ran_since_over, cs_vars>>

\* send_boot_notification: "await websocket.send" raises ConnectionClosed when
\* the connection ended while the send was in progress; the exception leaves
\* the "async with" block of run(), whose exit awaits the closing of the
\* websocket
CP_BootSendFails ==
    /\ boot_pc = "sending"
    /\ cp_conn = "closed"
    /\ boot_pc' = "closing"
    /\ cp_out' = <<>>
    /\ cp_in' = NoInput
    /\ UNCHANGED <<config, sent_calls, hb_pc, listen_pc, total_sleep_time, hb_count,
                   hb_interval_at_sleep_start, cp_conn, ran_since_over, cs_vars>>

\* run() at "await asyncio.gather(listen_task, heartbeat_task)": the first
\* exception of a task is raised in run() and leaves the "async with" block,
\* whose exit closes the websocket and awaits the closing handshake.
\* heartbeat_task never returns, so gather never returns a result.
CP_RunRaises ==
    /\ boot_pc = "gather"
    /\ (listen_pc = "crashed" \/ hb_pc = "raised")
    /\ boot_pc' = "closing"
    /\ cp_conn' = "closed"
    /\ cp_out' = <<>>
    /\ cp_in' = NoInput
    /\ UNCHANGED <<config, sent_calls, hb_pc, listen_pc, total_sleep_time, hb_count,
                   hb_interval_at_sleep_start, ran_since_over, cs_vars>>

\* the exit of the "async with" block is over and run() raises.  The tasks
\* that are left are not cancelled yet: asyncio.run stops the event loop
\* through a callback of run()'s task, which the loop runs one pass later.
CP_RunOver ==
    /\ boot_pc = "closing"
    /\ boot_pc' = "raised"
    /\ cp_out' = <<>>
    /\ cp_in' = NoInput
    /\ UNCHANGED <<config, sent_calls, hb_pc, listen_pc, total_sleep_time, hb_count,
                   hb_interval_at_sleep_start, cp_conn, ran_since_over, cs_vars>>

\* The event loop runs a step of a task.  Once run() is over the loop stops at
\* the end of the pass that runs the callback of run()'s task: a task that is
\* left runs at most once more, since each of its steps ends in an await that
\* cannot complete within these passes (a sleep of one second) or ends the task
\* (the websocket is closed).
loop_runs(task) ==
    /\ boot_pc = "raised" => task \notin ran_since_over
    /\ ran_since_over' = IF boot_pc = "raised" THEN ran_since_over \cup {task}
                         ELSE ran_since_over

\* a task that asyncio.run cancels: one that has not ended
cancelled(pc) ==
    IF pc \in {"init", "listening", "sending", "sleeping"} THEN "cancelled" ELSE pc

\* asyncio.run(charging_point.run()), after the loop stopped: the tasks that
\* are left are cancelled and run to their end
CP_CancelAllTasks ==
    /\ boot_pc = "raised"
    /\ cancelled(hb_pc) # hb_pc \/ cancelled(listen_pc) # listen_pc
    /\ hb_pc' = cancelled(hb_pc)
    /\ listen_pc' = cancelled(listen_pc)
    /\ cp_out' = <<>>
    /\ cp_in' = NoInput
    /\ UNCHANGED <<config, sent_calls, boot_pc, total_sleep_time, hb_count,
                   hb_interval_at_sleep_start, cp_conn, ran_since_over, cs_vars>>

\* listen_for_messages: one iteration of the loop, up to the
\* "await websocket.send(response)" when there is a response
CP_Receive(message, is_valid) ==
    /\ loop_runs("listen_for_messages")
    /\ boot_pc # "init"
    /\ listen_pc = "listening"
    /\ cp_conn = "open"
    /\ LET r == IF json_loads_raises(message)
                THEN [config |-> config, sent_calls |-> sent_calls, response |-> <<>>,
                      raised |-> TRUE]
                ELSE handle_message(config, sent_calls, message, is_valid)
       IN /\ config' = r.config
          /\ sent_calls' = r.sent_calls
          /\ listen_pc' = IF r.raised THEN "crashed"
                          ELSE IF r.response # <<>> THEN "sending"
                          ELSE "listening"
          /\ cp_out' = IF r.raised THEN <<>> ELSE r.response
    /\ cp_in' = [frame |-> message, is_valid |-> is_valid]
    /\ UNCHANGED <<boot_pc, hb_pc, total_sleep_time, hb_count,
                   hb_interval_at_sleep_start, cp_conn, cs_vars>>

\* listen_for_messages after the send of the response: back to recv, or
\* ConnectionClosed raised by the send and caught
CP_ReplySent ==
    /\ loop_runs("listen_for_messages")
    /\ listen_pc = "sending"
    /\ listen_pc' = IF cp_conn = "open" THEN "listening" ELSE "stopped"
    /\ cp_out' = <<>>
    /\ cp_in' = NoInput
    /\ UNCHANGED <<config, sent_calls, boot_pc, hb_pc, total_sleep_time, hb_count,
                   hb_interval_at_sleep_start, cp_conn, cs_vars>>

\* listen_for_messages: websocket.recv raises ConnectionClosed, which is caught
CP_ListenClosed ==
    /\ loop_runs("listen_for_messages")
    /\ boot_pc # "init"
    /\ listen_pc = "listening"
    /\ cp_conn = "closed"
    /\ listen_pc' = "stopped"
    /\ cp_out' = <<>>
    /\ cp_in' = NoInput
    /\ UNCHANGED <<config, sent_calls, boot_pc, hb_pc, total_sleep_time, hb_count,
                   hb_interval_at_sleep_start, cp_conn, cs_vars>>

\* the peer or the network ends the connection
CP_Close ==
    /\ cp_conn = "open"
    /\ cp_conn' = "closed"
    /\ cp_out' = <<>>
    /\ cp_in' = NoInput
    /\ UNCHANGED <<config, sent_calls, boot_pc, hb_pc, listen_pc, total_sleep_time,
                   hb_count, hb_interval_at_sleep_start, ran_since_over, cs_vars>>

\* send_heartbeat on a socket that takes frames after the connection ended
CP_send_heartbeat_ignores_close ==
    /\ hb_count < MaxHeartbeats
    /\ hb_pc' = "sending"
    /\ hb_count' = hb_count + 1
    /\ cp_out' = <<CallFrame(HeartbeatId(hb_count + 1), "Heartbeat", EmptyPayload)>>

\* heartbeat_task calls send_heartbeat, up to its "await websocket.send"
CP_send_heartbeat ==
    IF cp_conn # "open"
    THEN /\ hb_pc' = "raised"
         /\ cp_out' = <<>>
         /\ UNCHANGED hb_count
    ELSE /\ hb_count < MaxHeartbeats
         /\ hb_pc' = "sending"
         /\ hb_count' = hb_count + 1
         /\ cp_out' = <<CallFrame(HeartbeatId(hb_count + 1), "Heartbeat", EmptyPayload)>>

\* the sleep loop testing the interval read when the sleep began
sleep_goes_on_fixed(slept, cfg, interval_at_start) == slept < interval_at_start

\* heartbeat_task: the test of the sleep loop
sleep_goes_on(slept, cfg, interval_at_start) == slept < cfg["HeartbeatInterval"]

CP_StartHeartbeat ==
    /\ loop_runs("heartbeat_task")
    /\ boot_pc # "init"
    /\ hb_pc = "init"
    /\ CP_send_heartbeat
    /\ cp_in' = NoInput
    /\ UNCHANGED <<config, sent_calls, boot_pc, listen_pc, total_sleep_time,
                   hb_interval_at_sleep_start, cp_conn, cs_vars>>

\* send_heartbeat after the send: record the call; heartbeat_task then resets
\* total_sleep_time and enters the sleep loop
CP_HeartbeatSent ==
    /\ loop_runs("heartbeat_task")
    /\ hb_pc = "sending"
    /\ sent_calls' = DictAssign(sent_calls, HeartbeatId(hb_count), "Heartbeat")
    /\ total_sleep_time' = 0
    /\ hb_interval_at_sleep_start' = config["HeartbeatInterval"]
    /\ IF sleep_goes_on(0, config, config["HeartbeatInterval"])
       THEN /\ hb_pc' = "sleeping"
            /\ cp_out' = <<>>
            /\ UNCHANGED hb_count
       ELSE CP_send_heartbeat
    /\ cp_in' = NoInput
    /\ UNCHANGED <<config, boot_pc, listen_pc, cp_conn, cs_vars>>

\* send_heartbeat: "await websocket.send" raises ConnectionClosed when the
\* connection ended while the send was in progress
CP_HeartbeatSendFails ==
    /\ loop_runs("heartbeat_task")
    /\ hb_pc = "sending"
    /\ cp_conn = "closed"
    /\ hb_pc' = "raised"
    /\ cp_out' = <<>>
    /\ cp_in' = NoInput
    /\ UNCHANGED <<config, sent_calls, boot_pc, listen_pc, total_sleep_time, hb_count,
                   hb_interval_at_sleep_start, cp_conn, cs_vars>>

\* heartbeat_task: asyncio.sleep(1) returns
CP_Tick ==
    /\ loop_runs("heartbeat_task")
    /\ hb_pc = "sleeping"
    /\ total_sleep_time' = total_sleep_time + 1
    /\ IF sleep_goes_on(total_sleep_time + 1, config, hb_interval_at_sleep_start)
       THEN /\ hb_pc' = "sleeping"
            /\ cp_out' = <<>>
            /\ UNCHANGED hb_count
       ELSE CP_send_heartbeat
    /\ cp_in' = NoInput
    /\ UNCHANGED <<config, sent_calls, boot_pc, listen_pc, hb_interval_at_sleep_start,
                   cp_conn, cs_vars>>

\* the steps the point's own coroutines take
PointProgram ==
    \/ CP_SendBoot
    \/ CP_BootSent
    \/ CP_BootSendFails
    \/ CP_RunRaises
    \/ CP_RunOver
    \/ CP_CancelAllTasks
    \/ CP_ReplySent
    \/ CP_ListenClosed
    \/ CP_StartHeartbeat
    \/ CP_HeartbeatSent
    \/ CP_HeartbeatSendFails
    \/ CP_Tick

PointNext ==
    \/ CP_SendBoot
    \/ CP_BootSent
    \/ CP_BootSendFails
    \/ CP_RunRaises
    \/ CP_RunOver
    \/ CP_CancelAllTasks
    \/ \E i \in InputsToPoint : CP_Receive(i.frame, i.is_valid)
    \/ CP_ReplySent
    \/ CP_ListenClosed
    \/ CP_Close
    \/ CP_StartHeartbeat
    \/ CP_HeartbeatSent
    \/ CP_HeartbeatSendFails
    \/ CP_Tick

Init ==
    /\ connected_charging_points = <<>>
    /\ pending_requests = [i \in {} |-> 0]
    /\ calls = [c \in Calls |-> IdleCall]
    /\ conn = [ws \in Conns |-> "open"]
    /\ cs_out = <<>>
    /\ cs_in = NoInput
    /\ config = InitialConfig
    /\ sent_calls = [i \in {} |-> ""]
    /\ boot_pc = "init"
    /\ hb_pc = "init"
    /\ listen_pc = "listening"
    /\ total_sleep_time = 0
    /\ hb_count = 0
    /\ hb_interval_at_sleep_start = 0
    /\ cp_conn = "open"
    /\ ran_since_over = {}
    /\ cp_out = <<>>
    /\ cp_in = NoInput

CentralSpec == Init /\ [][CentralNext]_vars
PointSpec == Init /\ [][PointNext]_vars

\* central's own steps are taken when they can be; the peer and the
\* administrative caller are under no obligation
FairCentralSpec == CentralSpec /\ WF_vars(CentralProgram)

\* the event loop of asyncio.run runs some step of the point when there is
\* one, and asyncio.run cancels the tasks that are left once run() is over; no
\* particular task is promised a step
FairPointSpec == PointSpec /\ WF_vars(PointProgram)

(***************************************************************************)
(* Claims                                                                  *)
(***************************************************************************)
IsFrame(input) == "frame" \in DOMAIN input
IsReply(input) ==
    /\ IsFrame(input)
    /\ "type" \in DOMAIN input.frame
    /\ input.frame.type \in {CALL_RESULT, CALL_ERROR}
    /\ {"id", "payload"} \subseteq DOMAIN input.frame
IsCall(input, action) ==
    /\ IsFrame(input)
    /\ "type" \in DOMAIN input.frame
    /\ input.frame.type = CALL
    /\ "action" \in DOMAIN input.frame
    /\ input.frame.action = action

\* C1: whenever the frame of an outbound Call has been handed to the socket, its
\* id is in the sender's pending table (central: pending_requests, point:
\* __sent_calls).
C1_RegisteredBeforeSent ==
    /\ \A c \in Calls : calls[c].pc = "sending" => uuid4(c) \in DOMAIN pending_requests
    /\ boot_pc = "sending" => BootId \in DOMAIN sent_calls
    /\ hb_pc = "sending" => HeartbeatId(hb_count) \in DOMAIN sent_calls

\* C2: a step in which central handles a BootNotification Call that passes
\* validation and carries a non-empty chargePointSerialNumber leaves that serial
\* number mapped to the websocket the Call arrived on and sends exactly one
\* frame, on that websocket: a CallResult with the Call's id and status Accepted.
C2_BootRegistersAndAccepts ==
    [][(/\ IsCall(cs_in', "BootNotification")
        /\ cs_in'.is_valid
        /\ "chargePointSerialNumber" \in DOMAIN cs_in'.frame.payload
        /\ cs_in'.frame.payload.chargePointSerialNumber # "")
       => LET serial == cs_in'.frame.payload.chargePointSerialNumber
          IN /\ serial \in DictKeys(connected_charging_points')
             /\ DictGet(connected_charging_points', serial) = cs_in'.ws
             /\ Len(cs_out') = 1
             /\ cs_out'[1].ws = cs_in'.ws
             /\ cs_out'[1].frame.type = CALL_RESULT
             /\ cs_out'[1].frame.id = cs_in'.frame.id
             /\ cs_out'[1].frame.payload.status = "Accepted"]_vars

\* C2 witness: a valid BootNotification for SN1 arrived on ws2 while SN1 was
\* known, and SN1 now maps to ws2, which got the Accepted reply.
C2_Witness ==
    /\ IsCall(cs_in, "BootNotification")
    /\ cs_in.is_valid
    /\ cs_in.ws = "ws2"
    /\ cs_in.frame.payload = BootPayloadSN1
    /\ "SN1" \in DictKeys(connected_charging_points)
    /\ DictGet(connected_charging_points, "SN1") = "ws2"
    /\ Len(cs_out) = 1
    /\ cs_out[1].ws = "ws2"
    /\ cs_out[1].frame.payload.status = "Accepted"

\* C3: a reply frame (CallResult or CallError) whose id is pending completes
\* the waiting call with the frame's payload and removes the id, leaving the
\* other calls alone; a reply frame whose id is not pending changes nothing and
\* leaves the connection open; a completed call is never completed again.
C3_ExactlyOnceResolution ==
    [][/\ IsReply(cs_in') =>
            LET m == cs_in'.frame
            IN IF m.id \in DOMAIN pending_requests
               THEN LET c == pending_requests[m.id]
                    IN /\ calls[c].pc = "waiting"
                       /\ calls'[c].pc = "done"
                       /\ calls'[c].response = m.payload
                       /\ DOMAIN pending_requests' = DOMAIN pending_requests \ {m.id}
                       /\ \A b \in Calls \ {c} : calls'[b] = calls[b]
               ELSE /\ pending_requests' = pending_requests
                    /\ calls' = calls
                    /\ connected_charging_points' = connected_charging_points
                    /\ conn' = conn
                    /\ cs_out' = <<>>
       /\ \A c \in Calls : calls[c].pc = "done" => calls'[c] = calls[c]]_vars

\* C3 witness: call 1 was completed, and the last step received a second reply
\* frame with its id and another payload; the call keeps the first payload.
C3_Witness ==
    /\ IsReply(cs_in)
    /\ cs_in.frame.id = uuid4(1)
    /\ calls[1].pc = "done"
    /\ calls[1].response # cs_in.frame.payload
    /\ uuid4(1) \notin DOMAIN pending_requests
    /\ conn[cs_in.ws] = "open"

\* C4: in both roles a step that receives a CallResult or CallError whose id is
\* not in the pending table changes neither the pending table nor the
\* configuration store and leaves the listener running.
C4_UnmatchedReplyIsNoOp ==
    [][/\ (IsReply(cp_in') /\ cp_in'.frame.id \notin DOMAIN sent_calls)
            => /\ listen_pc' = "listening"
               /\ sent_calls' = sent_calls
               /\ config' = config
       /\ (IsReply(cs_in') /\ cs_in'.frame.id \notin DOMAIN pending_requests)
            => /\ conn' = conn
               /\ pending_requests' = pending_requests
               /\ calls' = calls]_vars

\* C5 (as stated): when a sleep that began with a positive interval is over
\* and the next Heartbeat is being sent, the number of one-second ticks slept
\* equals the HeartbeatInterval at the start of that sleep.
C5_SleepLengthIsIntervalAtStart ==
    (hb_pc = "sending" /\ hb_interval_at_sleep_start > 0)
        => total_sleep_time = hb_interval_at_sleep_start

\* C5 (amended): every tick of a sleep adds one to the ticks slept, and the
\* sleep goes on after the tick exactly when the ticks slept are fewer than the
\* HeartbeatInterval the store holds at that moment; otherwise the next
\* Heartbeat is sent at once.
C5_SleepFollowsCurrentInterval ==
    [][(hb_pc = "sleeping" /\ total_sleep_time' # total_sleep_time)
       => /\ total_sleep_time' = total_sleep_time + 1
          /\ (hb_pc' = "sleeping") <=> (total_sleep_time' < config["HeartbeatInterval"])
          /\ hb_pc' \in {"sleeping", "sending", "raised"}
          /\ (hb_pc' = "sending") =>
                cp_out' = <<CallFrame(HeartbeatId(hb_count'), "Heartbeat", EmptyPayload)>>]_vars

\* C5 witness: a Heartbeat is being sent after a sleep that was cut short: fewer
\* ticks were slept than the interval the sleep began with.
C5_Witness ==
    /\ hb_pc = "sending"
    /\ total_sleep_time >= 1
    /\ total_sleep_time < hb_interval_at_sleep_start
    /\ total_sleep_time >= config["HeartbeatInterval"]

\* C6: a call that is waiting on its future when its connection has closed is
\* eventually no longer waiting, and its id is no longer in pending_requests.
C6_WaitersFailOnClose ==
    \A c \in Calls :
        (calls[c].pc = "waiting" /\ conn[calls[c].ws] # "open")
            ~> (calls[c].pc # "waiting" /\ uuid4(c) \notin DOMAIN pending_requests)

\* C7: once a connection has ended and its handler is over, no entry of
\* connected_charging_points has its websocket as value.
C7_NoEntryForClosedConnection ==
    \A ws \in Conns :
        conn[ws] = "closed" =>
            \A i \in 1..Len(connected_charging_points) :
                connected_charging_points[i].ws # ws

\* the reply to a GetConfiguration Call that partitions the requested keys:
\* exactly one frame, a CallResult with the Call's id; every requested key in
\* the store is in configurationKey with the store's value and readonly false,
\* and not in unknownKey; every other requested key is in unknownKey and not in
\* configurationKey; nothing else is in either list; the store is unchanged
KeysPartitioned ==
    /\ config' = config
    /\ listen_pc' = "sending"
    /\ Len(cp_out') = 1
    /\ cp_out'[1].type = CALL_RESULT
    /\ cp_out'[1].id = cp_in'.frame.id
    /\ {"configurationKey", "unknownKey"} \subseteq DOMAIN cp_out'[1].payload
    /\ LET keys == cp_in'.frame.payload.key
           known == cp_out'[1].payload.configurationKey
           unknown == cp_out'[1].payload.unknownKey
       IN /\ \A i \in 1..Len(keys) :
               IF keys[i] \in DOMAIN config
               THEN /\ \E j \in 1..Len(known) :
                          known[j] = [key |-> keys[i], readonly |-> FALSE,
                                      value |-> config[keys[i]]]
                    /\ \A j \in 1..Len(unknown) : unknown[j] # keys[i]
               ELSE /\ \E j \in 1..Len(unknown) : unknown[j] = keys[i]
                    /\ \A j \in 1..Len(known) : known[j].key # keys[i]
          /\ \A j \in 1..Len(known) : \E i \in 1..Len(keys) : known[j].key = keys[i]
          /\ \A j \in 1..Len(unknown) : \E i \in 1..Len(keys) : unknown[j] = keys[i]

\* the reply to a Call whose payload the validator rejects: exactly one frame,
\* a CallError with the Call's id and status Rejected; the store is unchanged
RejectedWithCallError ==
    /\ config' = config
    /\ listen_pc' = "sending"
    /\ cp_out' = <<ReplyFrame(CALL_ERROR, cp_in'.frame.id, RejectedPayload)>>

\* C8, as stated: a step in which the point handles a GetConfiguration Call
\* that carries a list of keys, whatever the validator says of its payload,
\* sends exactly one frame, a CallResult with the Call's id, in which the
\* requested keys are partitioned into configurationKey and unknownKey; the
\* store is unchanged.
C8_GetConfigurationAlwaysCallResult ==
    [][(/\ IsCall(cp_in', "GetConfiguration")
        /\ "key" \in DOMAIN cp_in'.frame.payload)
       => KeysPartitioned]_vars

\* C8, amended: a step in which the point handles a GetConfiguration Call that
\* carries a list of keys sends exactly one frame with the Call's id and leaves
\* the store unchanged; when the payload passes validation the frame is a
\* CallResult in which the requested keys are partitioned into configurationKey
\* and unknownKey, also when every key is unknown; when the validator rejects
\* the payload the frame is a CallError with status Rejected.
C8_GetConfigurationPartitionsKeys ==
    [][(/\ IsCall(cp_in', "GetConfiguration")
        /\ "key" \in DOMAIN cp_in'.frame.payload)
       => IF cp_in'.is_valid THEN KeysPartitioned ELSE RejectedWithCallError]_vars

\* C8 witness: the point answered a valid request for a known and an unknown
\* key.
C8_Witness ==
    /\ IsCall(cp_in, "GetConfiguration")
    /\ cp_in.is_valid
    /\ cp_in.frame.payload = [key |-> <<"HeartbeatInterval", "NoSuchKey">>]
    /\ cp_out = <<ReplyFrame(CALL_RESULT, PeerCallId,
                     [configurationKey |-> <<[key |-> "HeartbeatInterval", readonly |-> FALSE,
                                              value |-> config["HeartbeatInterval"]]>>,
                      unknownKey |-> <<"NoSuchKey">>])>>

\* the integer each value of the inputs denotes, where it denotes one
IntegerValue ==
    (Str12 :> 12) @@ (StrMinus1 :> 0 - 1) @@ (StrSpaced1_2 :> 12) @@ (StrUnicode12 :> 12)
    @@ (PyInt(5) :> 5)

\* C9: a step in which the point handles a ChangeConfiguration Call that passes
\* validation, whose key is in the store and whose value denotes an integer,
\* sets that entry to the integer, leaves the other entries as they were and
\* sends exactly one frame: a CallResult with the Call's id and status Accepted.
C9_ChangeConfigurationAccepted ==
    [][(/\ IsCall(cp_in', "ChangeConfiguration")
        /\ cp_in'.is_valid
        /\ "key" \in DOMAIN cp_in'.frame.payload
        /\ "value" \in DOMAIN cp_in'.frame.payload
        /\ cp_in'.frame.payload.key \in DOMAIN config
        /\ cp_in'.frame.payload.value \in DOMAIN IntegerValue)
       => LET key == cp_in'.frame.payload.key
          IN /\ DOMAIN config' = DOMAIN config
             /\ config'[key] = IntegerValue[cp_in'.frame.payload.value]
             /\ \A k \in DOMAIN config \ {key} : config'[k] = config[k]
             /\ cp_out' = <<ReplyFrame(CALL_RESULT, cp_in'.frame.id, AcceptedPayload)>>
             /\ listen_pc' = "sending"]_vars

\* C9 witness: the value "12" was accepted for HeartbeatInterval, which is now
\* the integer 12.
C9_Witness ==
    /\ IsCall(cp_in, "ChangeConfiguration")
    /\ cp_in.is_valid
    /\ cp_in.frame.payload = [key |-> "HeartbeatInterval", value |-> Str12]
    /\ config["HeartbeatInterval"] = 12
    /\ cp_out = <<ReplyFrame(CALL_RESULT, PeerCallId, AcceptedPayload)>>

\* C10: a step in which the point handles a ChangeConfiguration Call whose key
\* is not in the store, whatever the validator says, leaves the store as it
\* was and sends exactly one frame, carrying the Call's id and status Rejected.
C10_UnknownKeyRejected ==
    [][(/\ IsCall(cp_in', "ChangeConfiguration")
        /\ "key" \in DOMAIN cp_in'.frame.payload
        /\ cp_in'.frame.payload.key \notin DOMAIN config)
       => /\ config' = config
          /\ Len(cp_out') = 1
          /\ cp_out'[1].id = cp_in'.frame.id
          /\ cp_out'[1].payload.status = "Rejected"
          /\ listen_pc' = "sending"]_vars

\* C10 witness: a valid ChangeConfiguration for NoSuchKey was answered with
\* Rejected and the store has only HeartbeatInterval.
C10_Witness ==
    /\ IsCall(cp_in, "ChangeConfiguration")
    /\ cp_in.is_valid
    /\ cp_in.frame.payload = [key |-> "NoSuchKey", value |-> Str12]
    /\ DOMAIN config = {"HeartbeatInterval"}
    /\ Len(cp_out) = 1
    /\ cp_out[1].payload.status = "Rejected"

IsUnsupportedCall(input, handled) ==
    /\ IsFrame(input)
    /\ "type" \in DOMAIN input.frame
    /\ input.frame.type = CALL
    /\ "action" \in DOMAIN input.frame
    /\ input.frame.action \notin handled
IsMalformed(input) == IsFrame(input) /\ input.frame \in MalformedFrames

\* C11: a step in which the point handles a ChangeConfiguration Call whose
\* payload fails validation (a payload without key included) leaves the store
\* as it was, hands exactly one frame to the socket, a CallError with the
\* Call's id, and the listener goes on.
C11_InvalidChangeGetsCallError ==
    [][(IsCall(cp_in', "ChangeConfiguration") /\ ~ cp_in'.is_valid)
       => /\ config' = config
          /\ Len(cp_out') = 1
          /\ cp_out'[1].type = CALL_ERROR
          /\ cp_out'[1].id = cp_in'.frame.id
          /\ listen_pc' = "sending"]_vars

\* C12: in both roles a step that receives a Call naming an action the role
\* does not handle sends no frame, changes no state of the role and leaves its
\* listener running.
C12_UnsupportedActionDropped ==
    [][/\ IsUnsupportedCall(cs_in', {"BootNotification", "Heartbeat"})
            => /\ cs_out' = <<>>
               /\ connected_charging_points' = connected_charging_points
               /\ pending_requests' = pending_requests
               /\ calls' = calls
               /\ conn' = conn
       /\ IsUnsupportedCall(cp_in', {"GetConfiguration", "ChangeConfiguration"})
            => /\ cp_out' = <<>>
               /\ config' = config
               /\ sent_calls' = sent_calls
               /\ listen_pc' = "listening"]_vars

\* C13: in both roles a step that receives a malformed frame (text that is not
\* JSON, a JSON value that is not a list, a list with an unknown type tag, a
\* list too short for its type) changes no state of the role, sends nothing and
\* leaves its listener running.
C13_MalformedFrameDropped ==
    [][/\ IsMalformed(cs_in')
            => /\ cs_out' = <<>>
               /\ connected_charging_points' = connected_charging_points
               /\ pending_requests' = pending_requests
               /\ calls' = calls
               /\ conn' = conn
       /\ IsMalformed(cp_in')
            => /\ cp_out' = <<>>
               /\ config' = config
               /\ sent_calls' = sent_calls
               /\ listen_pc' = "listening"]_vars

\* C14: a step in which an administrative GetConfiguration or
\* ChangeConfiguration request is made for an identity with no entry in
\* connected_charging_points ends the request with the "not connected"
\* failure: no frame is sent, pending_requests, the registry and the other
\* calls are unchanged, and the caller is not suspended.
C14_NotConnectedFailsAtOnce ==
    [][("request" \in DOMAIN cs_in'
        /\ cs_in'.charge_point_id \notin DictKeys(connected_charging_points))
       => /\ cs_out' = <<>>
          /\ pending_requests' = pending_requests
          /\ connected_charging_points' = connected_charging_points
          /\ conn' = conn
          /\ \E c \in Calls :
                /\ calls[c].pc = "idle"
                /\ calls'[c].pc = "not_connected"
                /\ \A b \in Calls \ {c} : calls'[b] = calls[b]]_vars

\* C14 witness: SN1 is registered and a call to it is waiting; the last step
\* was a ChangeConfiguration request for SN2, which has no entry, and it ended
\* with "not connected".
C14_Witness ==
    /\ cs_in = [request |-> "ChangeConfiguration", charge_point_id |-> "SN2"]
    /\ DictKeys(connected_charging_points) = {"SN1"}
    /\ calls[1].pc = "waiting"
    /\ calls[2].pc = "not_connected"
    /\ DOMAIN pending_requests = {uuid4(1)}
    /\ cs_out = <<>>

\* C15: a step in which central handles a Heartbeat Call sends exactly one
\* frame, on the websocket the Call arrived on: a CallResult with the Call's id
\* and a currentTime field; connected_charging_points and pending_requests are
\* unchanged.
C15_HeartbeatRepliesWithTime ==
    [][IsCall(cs_in', "Heartbeat")
       => /\ Len(cs_out') = 1
          /\ cs_out'[1].ws = cs_in'.ws
          /\ cs_out'[1].frame.type = CALL_RESULT
          /\ cs_out'[1].frame.id = cs_in'.frame.id
          /\ "currentTime" \in DOMAIN cs_out'[1].frame.payload
          /\ connected_charging_points' = connected_charging_points
          /\ pending_requests' = pending_requests
          /\ calls' = calls
          /\ conn' = conn]_vars

\* C15 witness: a Heartbeat arrived on ws2 while the registry and the pending
\* table were not empty, and ws2 got the CallResult with the current time.
C15_Witness ==
    /\ IsCall(cs_in, "Heartbeat")
    /\ cs_in.ws = "ws2"
    /\ cs_out = <<[ws |-> "ws2",
                   frame |-> ReplyFrame(CALL_RESULT, PeerCallId, [currentTime |-> Now])]>>
    /\ Len(connected_charging_points) > 0
    /\ DOMAIN pending_requests # {}

\* C16: a step in which the point handles a CallResult whose id is in
\* __sent_calls removes that id and nothing else from the table; when the
\* recorded action is BootNotification and the payload carries an interval,
\* HeartbeatInterval becomes that interval and the other entries stay; when the
\* recorded action is Heartbeat the store is unchanged; the listener goes on.
C16_ReplyHandledByRecordedAction ==
    [][(/\ IsReply(cp_in')
        /\ cp_in'.frame.type = CALL_RESULT
        /\ cp_in'.frame.id \in DOMAIN sent_calls)
       => LET m == cp_in'.frame
          IN /\ (sent_calls[m.id] = "BootNotification" /\ "interval" \in DOMAIN m.payload)
                  => /\ config' = [config EXCEPT !["HeartbeatInterval"] = m.payload.interval]
                     /\ sent_calls' = [i \in DOMAIN sent_calls \ {m.id} |-> sent_calls[i]]
                     /\ listen_pc' = "listening"
             /\ sent_calls[m.id] = "Heartbeat"
                  => /\ config' = config
                     /\ sent_calls' = [i \in DOMAIN sent_calls \ {m.id} |-> sent_calls[i]]
                     /\ listen_pc' = "listening"]_vars

\* C16 witness: the reply to the BootNotification call arrived with interval 5
\* while a Heartbeat call was pending: HeartbeatInterval is 5, the
\* BootNotification id is gone and the Heartbeat id is still pending.
C16_Witness ==
    /\ IsReply(cp_in)
    /\ cp_in.frame = ReplyFrame(CALL_RESULT, BootId, [interval |-> 5])
    /\ config["HeartbeatInterval"] = 5
    /\ BootId \notin DOMAIN sent_calls
    /\ HeartbeatId(1) \in DOMAIN sent_calls
    /\ sent_calls[HeartbeatId(1)] = "Heartbeat"
    /\ listen_pc = "listening"

\* C17: on the point at most one send on the websocket is in progress: of the
\* BootNotification send, the Heartbeat send and the listener's reply send, no
\* two are suspended in websocket.send in the same state.
C17_SendsSerialized ==
    /\ ~ (boot_pc = "sending" /\ hb_pc = "sending")
    /\ ~ (boot_pc = "sending" /\ listen_pc = "sending")
    /\ ~ (hb_pc = "sending" /\ listen_pc = "sending")

\* C18: a step in which central receives a reply frame whose id is pending for
\* a call that was sent on another websocket than the one the frame arrived on
\* neither completes that call nor removes the id from pending_requests.
C18_CorrelationPerConnection ==
    [][(/\ IsReply(cs_in')
        /\ cs_in'.frame.id \in DOMAIN pending_requests
        /\ calls[pending_requests[cs_in'.frame.id]].ws # cs_in'.ws)
       => /\ pending_requests' = pending_requests
          /\ calls' = calls]_vars

\* C19: a step in which the point handles a CallError whose id is in
\* __sent_calls leaves that id out of the table.
C19_CallErrorRemovesPending ==
    [][(/\ IsReply(cp_in')
        /\ cp_in'.frame.type = CALL_ERROR
        /\ cp_in'.frame.id \in DOMAIN sent_calls)
       => cp_in'.frame.id \notin DOMAIN sent_calls']_vars

\* C20: a step in which central handles a BootNotification Call whose payload
\* fails validation sends exactly one frame, on the websocket the Call arrived
\* on: a CallResult with the Call's id, status Accepted and the default
\* heartbeat interval; connected_charging_points is unchanged.
C20_InvalidBootStillAccepted ==
    [][(IsCall(cs_in', "BootNotification") /\ ~ cs_in'.is_valid)
       => /\ cs_out' = <<[ws |-> cs_in'.ws,
                          frame |-> ReplyFrame(CALL_RESULT, cs_in'.frame.id,
                                       [status |-> "Accepted", currentTime |-> Now,
                                        interval |-> default_heartbeat_interval])]>>
          /\ connected_charging_points' = connected_charging_points]_vars

\* C21: in every reachable state the point's configuration store has exactly
\* the keys it was constructed with.
C21_ConfigKeysFixed == DOMAIN config = DOMAIN InitialConfig

\* C21 witness: an accepted ChangeConfiguration gave HeartbeatInterval the
\* value -1, and HeartbeatInterval is still the only key.
C21_Witness ==
    /\ IsCall(cp_in, "ChangeConfiguration")
    /\ cp_in.is_valid
    /\ cp_in.frame.payload = [key |-> "HeartbeatInterval", value |-> StrMinus1]
    /\ config = [k \in {"HeartbeatInterval"} |-> 0 - 1]

\* C22: a call changes only in its own request steps or in a step that
\* receives a reply frame carrying the call's own id, and a call that becomes
\* completed holds exactly the payload of that frame.
C22_ReplyGoesToItsCaller ==
    [][\A c \in Calls :
          /\ (IsReply(cs_in') /\ calls'[c] # calls[c])
                => /\ cs_in'.frame.id = uuid4(c)
                   /\ calls'[c].pc = "done"
                   /\ calls'[c].response = cs_in'.frame.payload
          /\ (calls'[c].pc = "done" /\ calls[c].pc # "done")
                => /\ IsReply(cs_in')
                   /\ cs_in'.frame.id = uuid4(c)
                   /\ calls'[c].response = cs_in'.frame.payload]_vars

\* C22 witness: two calls were made; the reply to the second was handled
\* before the reply to the first, which is the frame of the last step; each
\* call holds the payload of its own reply.
C22_Witness ==
    /\ IsReply(cs_in)
    /\ cs_in.frame = ReplyFrame(CALL_ERROR, uuid4(1), RejectedPayload)
    /\ calls[1].pc = "done"
    /\ calls[1].response = RejectedPayload
    /\ calls[2].pc = "done"
    /\ calls[2].response = AcceptedPayload
    /\ DOMAIN pending_requests = {}

\* C23: a step in which the handler of a connection ends leaves every registry
\* entry whose value is another websocket in the registry with the same value;
\* a step in which a connection ends changes no entry at all; with C2 (a
\* valid BootNotification maps its serial number to the arrival websocket) the
\* entry of a serial number taken over by connection B outlives the close of A.
C23_CloseKeepsEntriesOfOthers ==
    [][\A ws \in Conns :
          (conn[ws] # conn'[ws])
             => \A i \in 1..Len(connected_charging_points) :
                   connected_charging_points[i].ws # ws
                      => /\ connected_charging_points[i].id
                                \in DictKeys(connected_charging_points')
                         /\ DictGet(connected_charging_points',
                                    connected_charging_points[i].id)
                                = connected_charging_points[i].ws]_vars

\* C23 witness: a call sent on ws1 is still waiting, ws1 has ended with its
\* entry SN2 removed by the cleanup, and SN1 maps to ws2, which is open.
C23_Witness ==
    /\ conn["ws1"] = "closed"
    /\ conn["ws2"] = "open"
    /\ connected_charging_points = <<[id |-> "SN1", ws |-> "ws2"]>>
    /\ calls[1].pc = "waiting"
    /\ calls[1].ws = "ws1"
    /\ cs_in = NoInput

C25_TickBetweenHeartbeats ==
    [][(hb_count >= 1 /\ hb_count' = hb_count + 1) => total_sleep_time' >= 1]_vars
====
